---- MODULE Spec2Model ----
(***************************************************************************)
(* Model of visualize.py: load the reference_data table from SQLite,       *)
(* render it into an HTML page, write the page to disk, serve the working  *)
(* directory from a daemon thread and wait for one line on stdin.          *)
(*                                                                         *)
(* Text is modelled as a sequence of tokens: every markup tag is one token *)
(* and every run of plain characters is one token, so that concatenation   *)
(* of text is concatenation of sequences and a page can be parsed back.    *)
(***************************************************************************)
EXTENDS Integers, Sequences, FiniteSets, TLC

VARIABLES store, table, df, html, fs, fileAtStart, mainpc, serverpc,
          loads, writes, binds, printed, req, resp, served, run, sameData

vars == <<store, table, df, html, fs, fileAtStart, mainpc, serverpc,
          loads, writes, binds, printed, req, resp, served, run, sameData>>

\* ---------------------------------------------------------------- bounds
MaxId == 2
MaxRequests == 2
MaxRuns == 2

\* ---------------------------------------------------------------- config
DB_PATH == "crypto_refdata.db"
PORT == 5555
HTML_FILE == "reference_data.html"
PAGE_TITLE == "Crypto Reference Data"

\* ------------------------------------------------------------ data store
\* Columns named by the SELECT list, in the order the query lists them.
QueryColumns ==
  <<"id", "product_type", "exchange", "symbol", "tick_size", "lot_size",
    "updated_at">>

\* Symbol texts a row may hold: a plain one, and one carrying markup.
PlainSymbol == <<"BTCUSD">>
MarkupSymbol == <<"x", "</td>", "</tr>", "<tr>", "<td>", "y">>
Symbols == {PlainSymbol, MarkupSymbol}

\* Contents of the reference_data table: a set of rows keyed by id.
Tables == UNION {[S -> Symbols] : S \in SUBSET (1..MaxId)}

\* What the table may have become by the next run: left alone, or one row
\* inserted, deleted or updated.
Edits(t) ==
  {t}
  \cup {[j \in DOMAIN t \cup {i} |-> IF j = i THEN s ELSE t[j]] :
          i \in (1..MaxId) \ DOMAIN t, s \in Symbols}
  \cup {[j \in DOMAIN t \ {i} |-> t[j]] : i \in DOMAIN t}
  \cup {[t EXCEPT ![i] = s] : i \in DOMAIN t, s \in Symbols}

\* A field value: an integer, or text (REAL and TEXT columns are kept as
\* the text their str() gives).
IntValue(i) == [type |-> "int", v |-> i]
TextValue(s) == [type |-> "text", v |-> s]

\* One stored row, as the tuple of the seven selected fields.
RowOf(t, i) ==
  <<IntValue(i), TextValue(<<"spot">>), TextValue(<<"EX1">>), TextValue(t[i]),
    TextValue(<<"0.01">>), TextValue(<<"0.001">>),
    TextValue(<<"2024-01-01">>)>>

Min(S) == CHOOSE x \in S : \A y \in S : x <= y

RECURSIVE SortAsc(_)
SortAsc(S) == IF S = {} THEN <<>>
              ELSE <<Min(S)>> \o SortAsc(S \ {Min(S)})

\* SELECT ... FROM reference_data ORDER BY id ASC, as a DataFrame.
ReadSqlQuery(t) ==
  [columns |-> QueryColumns,
   rows |-> [k \in 1..Cardinality(DOMAIN t) |-> RowOf(t, SortAsc(DOMAIN t)[k])]]

\* -------------------------------------------------------------- renderer
\* str() of a value inside an f-string: digits for an integer, the text
\* itself for text.
Format(value) == IF value.type = "int" THEN <<ToString(value.v)>> ELSE value.v

RECURSIVE Concat(_)
Concat(ss) == IF ss = <<>> THEN <<>> ELSE Head(ss) \o Concat(Tail(ss))

RECURSIVE Join(_, _)
Join(sep, ss) == IF ss = <<>> THEN <<>>
                 ELSE IF Len(ss) = 1 THEN ss[1]
                 ELSE ss[1] \o sep \o Join(sep, Tail(ss))

\* Variant: the header cells come out in reverse column order.
TableHeadersReversed(d) ==
  Concat([k \in 1..Len(d.columns) |->
            <<"<th>", d.columns[Len(d.columns) + 1 - k], "</th>">>])

TableHeaders(d) ==
  Concat([k \in 1..Len(d.columns) |-> <<"<th>", d.columns[k], "</th>">>])

RowHtml(row) ==
  <<"<tr>">>
  \o Concat([k \in 1..Len(row) |-> <<"<td>">> \o Format(row[k]) \o <<"</td>">>])
  \o <<"</tr>">>

TableRows(d) ==
  Join(<<"\n">>, [k \in 1..Len(d.rows) |-> RowHtml(d.rows[k])])

Html(d) ==
  <<"<!DOCTYPE html>", "<html>", "<head>", "<title>", PAGE_TITLE, "</title>",
    "</head>", "<body>", "<h1>", PAGE_TITLE, "</h1>",
    "<table>", "<thead>", "<tr>">>
  \o TableHeaders(d)
  \o <<"</tr>", "</thead>", "<tbody>">>
  \o TableRows(d)
  \o <<"</tbody>", "</table>", "<script>", "</script>", "</body>", "</html>",
       "\n">>

\* ------------------------------------------------- reading a page back
\* Index of the first occurrence of tok in s at or after position from,
\* or 0 when there is none.
RECURSIVE IndexOf(_, _, _)
IndexOf(s, tok, from) ==
  IF from > Len(s) THEN 0
  ELSE IF s[from] = tok THEN from
  ELSE IndexOf(s, tok, from + 1)

\* The tokens strictly between the first open and the first close after it.
Between(s, open, close) ==
  LET i == IndexOf(s, open, 1)
      j == IF i = 0 THEN 0 ELSE IndexOf(s, close, i + 1)
  IN IF i = 0 \/ j = 0 THEN <<>> ELSE SubSeq(s, i + 1, j - 1)

\* The contents of every open...close element of s, in document order.
RECURSIVE Elements(_, _, _)
Elements(s, open, close) ==
  LET i == IndexOf(s, open, 1)
      j == IF i = 0 THEN 0 ELSE IndexOf(s, close, i + 1)
  IN IF i = 0 \/ j = 0 THEN <<>>
     ELSE <<SubSeq(s, i + 1, j - 1)>>
          \o Elements(SubSeq(s, j + 1, Len(s)), open, close)

PageHeaders(page) ==
  Elements(Between(page, "<thead>", "</thead>"), "<th>", "</th>")

PageBodyRows(page) ==
  LET trs == Elements(Between(page, "<tbody>", "</tbody>"), "<tr>", "</tr>")
  IN [k \in 1..Len(trs) |-> Elements(trs[k], "<td>", "</td>")]

\* What one body row per returned row, in query order, looks like.
ExpectedBodyRows(d) ==
  [k \in 1..Len(d.rows) |->
     [c \in 1..Len(d.rows[k]) |-> Format(d.rows[k][c])]]


\* ------------------------------------------------------------ file system
Paths == {HTML_FILE, DB_PATH, "favicon.ico"}

NoFile == [exists |-> FALSE, data |-> <<>>]
File(text) == [exists |-> TRUE, data |-> text]

\* Variant: the file is opened in append mode.
OpenForAppend(f) == File(f.data)

\* open(path, "w"): create the file or truncate it to nothing.
OpenForWrite(f) == File(<<>>)

\* write(text) on the open file: the text lands after what the file holds.
WriteText(f, text) == File(f.data \o text)

\* ---------------------------------------------------------------- state
NoFrame == [columns |-> <<>>, rows |-> <<>>]
NoRequest == [path |-> "", stage |-> "none", src |-> <<>>, thread |-> ""]
NoResponse == [path |-> "", status |-> 0, body |-> <<>>]

StoreStates == {"ok", "unreachable", "notable"}

\* The process lives until the main thread returns or dies of a fault; the
\* server thread is a daemon and does not keep the process up.
Alive == mainpc \notin {"done", "crashed"}

\* The server thread holds the listening socket from the bind on.
Listening == Alive /\ serverpc \in {"bound", "printed", "serving", "handling"}

ServerThreadRuns ==
  Alive /\ serverpc \in {"bind", "bound", "printed", "serving", "handling"}

\* Variant: a threading server, which hands each request to a new thread.
ThreadPerRequest == "handler"

\* The thread a request is handled on: TCPServer.process_request runs the
\* handler inline, on the thread that called serve_forever.
HandlerThread == "server"

Threads == (IF Alive THEN {"main"} ELSE {})
           \cup (IF ServerThreadRuns THEN {"server"} ELSE {})
           \cup (IF Alive /\ req.stage # "none" THEN {req.thread} ELSE {})

Init ==
  /\ store \in StoreStates
  /\ table \in Tables
  /\ df = NoFrame
  /\ html = <<>>
  /\ fs = [p \in Paths |-> IF p = DB_PATH THEN File(<<"SQLite format 3">>)
                           ELSE NoFile]
  /\ fileAtStart = NoFile
  /\ mainpc = "load"
  /\ serverpc = "notstarted"
  /\ loads = 0
  /\ writes = 0
  /\ binds = 0
  /\ printed = 0
  /\ req = NoRequest
  /\ resp = NoResponse
  /\ served = 0
  /\ run = 1
  /\ sameData = FALSE

\* ------------------------------------------------------------ main thread
\* sqlite3.connect, pd.read_sql_query and conn.close all succeed.
LoadOk ==
  /\ mainpc = "load"
  /\ store = "ok"
  /\ df' = ReadSqlQuery(table)
  /\ loads' = loads + 1
  /\ mainpc' = "render"
  /\ UNCHANGED <<store, table, html, fs, fileAtStart, serverpc, writes, binds,
                 printed, req, resp, served, run, sameData>>

\* Variant: the load failure is swallowed and an empty frame is rendered.
LoadFailIgnored ==
  /\ mainpc = "load"
  /\ store # "ok"
  /\ loads' = loads + 1
  /\ df' = [columns |-> QueryColumns, rows |-> <<>>]
  /\ mainpc' = "render"
  /\ UNCHANGED <<store, table, html, fs, fileAtStart, serverpc, writes, binds,
                 printed, req, resp, served, run, sameData>>

\* The store cannot be opened or the table is absent: the exception leaves
\* the module body and the interpreter exits.
LoadFail ==
  /\ mainpc = "load"
  /\ store # "ok"
  /\ loads' = loads + 1
  /\ mainpc' = "crashed"
  /\ UNCHANGED <<store, table, df, html, fs, fileAtStart, serverpc, writes,
                 binds, printed, req, resp, served, run, sameData>>

Render ==
  /\ mainpc = "render"
  /\ html' = Html(df)
  /\ mainpc' = "write"
  /\ UNCHANGED <<store, table, df, fs, fileAtStart, serverpc, loads, writes,
                 binds, printed, req, resp, served, run, sameData>>

\* Path.write_text, first half: the file is opened for writing.
WriteOpen ==
  /\ mainpc = "write"
  /\ fs' = [fs EXCEPT ![HTML_FILE] = OpenForWrite(fs[HTML_FILE])]
  /\ mainpc' = "writing"
  /\ UNCHANGED <<store, table, df, html, fileAtStart, serverpc, loads, writes,
                 binds, printed, req, resp, served, run, sameData>>

\* The open is refused (permissions, read-only directory).
WriteOpenFail ==
  /\ mainpc = "write"
  /\ mainpc' = "crashed"
  /\ UNCHANGED <<store, table, df, html, fs, fileAtStart, serverpc, loads,
                 writes, binds, printed, req, resp, served, run, sameData>>

\* Path.write_text, second half: the text is written and the file closed.
WriteData ==
  /\ mainpc = "writing"
  /\ fs' = [fs EXCEPT ![HTML_FILE] = WriteText(fs[HTML_FILE], html)]
  /\ writes' = writes + 1
  /\ mainpc' = "start"
  /\ UNCHANGED <<store, table, df, html, fileAtStart, serverpc, loads, binds,
                 printed, req, resp, served, run, sameData>>

\* The device fails or fills up during the write: a prefix of the text is
\* on disk and the exception ends the process.
WriteDataFail ==
  /\ mainpc = "writing"
  /\ \E k \in {0, 1} :
       fs' = [fs EXCEPT ![HTML_FILE] =
                WriteText(fs[HTML_FILE], SubSeq(html, 1, k))]
  /\ mainpc' = "crashed"
  /\ UNCHANGED <<store, table, df, html, fileAtStart, serverpc, loads, writes,
                 binds, printed, req, resp, served, run, sameData>>

\* Variant: the thread is started before the page is written.
StartThreadBeforeWrite ==
  /\ mainpc \in {"write", "start"}
  /\ serverpc' = IF serverpc = "notstarted" THEN "bind" ELSE serverpc
  /\ mainpc' = IF mainpc = "start" THEN "input" ELSE mainpc
  /\ UNCHANGED <<store, table, df, html, fs, fileAtStart, loads, writes, binds,
                 printed, req, resp, served, run, sameData>>

\* threading.Thread(target=serve, daemon=True).start()
StartThread ==
  /\ mainpc = "start"
  /\ serverpc' = "bind"
  /\ mainpc' = "input"
  /\ UNCHANGED <<store, table, df, html, fs, fileAtStart, loads, writes, binds,
                 printed, req, resp, served, run, sameData>>

\* Variant: the main thread shuts the server down before it exits.
ReadLineThenShutdown ==
  /\ mainpc = "input"
  /\ req.stage = "none"
  /\ mainpc' = "done"
  /\ serverpc' = "stopped"
  /\ UNCHANGED <<store, table, df, html, fs, fileAtStart, loads, writes, binds,
                 printed, req, resp, served, run, sameData>>

\* input() returns a line: the module body ends and the interpreter exits
\* without joining the daemon thread.
ReadLine ==
  /\ mainpc = "input"
  /\ mainpc' = "done"
  /\ UNCHANGED <<store, table, df, html, fs, fileAtStart, serverpc, loads,
                 writes, binds, printed, req, resp, served, run, sameData>>

\* input() meets end of file: EOFError ends the process.
StdinEof ==
  /\ mainpc = "input"
  /\ mainpc' = "crashed"
  /\ UNCHANGED <<store, table, df, html, fs, fileAtStart, serverpc, loads,
                 writes, binds, printed, req, resp, served, run, sameData>>

\* ---------------------------------------------------------- server thread
\* socketserver.TCPServer(("", PORT), QuietHandler) binds and listens.
BindOk ==
  /\ Alive
  /\ serverpc = "bind"
  /\ binds' = binds + 1
  /\ serverpc' = "bound"
  /\ UNCHANGED <<store, table, df, html, fs, fileAtStart, mainpc, loads, writes,
                 printed, req, resp, served, run, sameData>>

\* Variant: the bind failure takes the whole process down.
BindFailExits ==
  /\ Alive
  /\ serverpc = "bind"
  /\ binds' = binds + 1
  /\ serverpc' = "failed"
  /\ mainpc' = "crashed"
  /\ UNCHANGED <<store, table, df, html, fs, fileAtStart, loads, writes,
                 printed, req, resp, served, run, sameData>>

\* The port is taken: the constructor raises OSError inside serve(), the
\* thread ends with the exception, and the main thread is not told.
BindFail ==
  /\ Alive
  /\ serverpc = "bind"
  /\ binds' = binds + 1
  /\ serverpc' = "failed"
  /\ UNCHANGED <<store, table, df, html, fs, fileAtStart, mainpc, loads, writes,
                 printed, req, resp, served, run, sameData>>

\* Variant: the message is printed before the listener is bound.
PrintBeforeBind ==
  /\ Alive
  /\ serverpc = "bind"
  /\ printed = 0
  /\ printed' = printed + 1
  /\ UNCHANGED <<store, table, df, html, fs, fileAtStart, mainpc, serverpc,
                 loads, writes, binds, req, resp, served, run, sameData>>

\* print(f"Serving at http://localhost:{PORT}/{HTML_FILE}")
PrintServing ==
  /\ Alive
  /\ serverpc = "bound"
  /\ printed' = printed + 1
  /\ serverpc' = "printed"
  /\ UNCHANGED <<store, table, df, html, fs, fileAtStart, mainpc, loads, writes,
                 binds, req, resp, served, run, sameData>>

\* httpd.serve_forever() enters its accept loop.
ServeForever ==
  /\ Alive
  /\ serverpc = "printed"
  /\ serverpc' = "serving"
  /\ UNCHANGED <<store, table, df, html, fs, fileAtStart, mainpc, loads, writes,
                 binds, printed, req, resp, served, run, sameData>>

\* A client connects and asks for a path; the request is handled on the
\* server thread itself (TCPServer, not a threading server).
Accept ==
  /\ Alive
  /\ serverpc = "serving"
  /\ served < MaxRequests
  /\ \E p \in Paths : req' = [path |-> p, stage |-> "accepted", src |-> <<>>,
                               thread |-> HandlerThread]
  /\ serverpc' = "handling"
  /\ UNCHANGED <<store, table, df, html, fs, fileAtStart, mainpc, loads, writes,
                 binds, printed, resp, served, run, sameData>>

\* Variant: the handler ignores the path and serves one fixed file.
LookupFixed(files, path) == files[DB_PATH]

\* What the handler reads for a path: the file of that name in the working
\* directory.
Lookup(files, path) == files[path]

\* SimpleHTTPRequestHandler.send_head: open the file and send the headers,
\* or answer 404 when there is no such file.
SendHead ==
  /\ Alive
  /\ serverpc = "handling"
  /\ req.stage = "accepted"
  /\ IF Lookup(fs, req.path).exists
     THEN /\ req' = [req EXCEPT !.stage = "head",
                                !.src = Lookup(fs, req.path).data]
          /\ UNCHANGED <<resp, served, serverpc>>
     ELSE /\ resp' = [path |-> req.path, status |-> 404, body |-> <<>>]
          /\ req' = NoRequest
          /\ served' = served + 1
          /\ serverpc' = "serving"
  /\ UNCHANGED <<store, table, df, html, fs, fileAtStart, mainpc, loads, writes,
                 binds, printed, run, sameData>>

\* copyfile: the body goes out and the server returns to its accept loop.
SendBody ==
  /\ Alive
  /\ serverpc = "handling"
  /\ req.stage = "head"
  /\ resp' = [path |-> req.path, status |-> 200, body |-> req.src]
  /\ req' = NoRequest
  /\ served' = served + 1
  /\ serverpc' = "serving"
  /\ UNCHANGED <<store, table, df, html, fs, fileAtStart, mainpc, loads, writes,
                 binds, printed, run, sameData>>

\* ------------------------------------------------------------- re-running
\* The operator runs the script again after the process has ended.  The
\* working directory is what the last run left; the table may have changed.
\* sameData records that the run before wrote the page and that the table
\* is as that run read it; fileAtStart is the output file as the run finds it.
Restart ==
  /\ ~Alive
  /\ run < MaxRuns
  /\ run' = run + 1
  /\ store' \in StoreStates
  /\ table' \in Edits(table)
  /\ sameData' = (writes = 1 /\ table' = table)
  /\ fileAtStart' = fs[HTML_FILE]
  /\ df' = NoFrame
  /\ html' = <<>>
  /\ mainpc' = "load"
  /\ serverpc' = "notstarted"
  /\ loads' = 0
  /\ writes' = 0
  /\ binds' = 0
  /\ printed' = 0
  /\ req' = NoRequest
  /\ resp' = NoResponse
  /\ served' = 0
  /\ UNCHANGED fs

MainStep ==
  \/ LoadOk
  \/ LoadFail
  \/ Render
  \/ WriteOpen
  \/ WriteOpenFail
  \/ WriteData
  \/ WriteDataFail
  \/ StartThread
  \/ ReadLine
  \/ StdinEof

ServerStep ==
  \/ BindOk
  \/ BindFail
  \/ PrintServing
  \/ ServeForever
  \/ Accept
  \/ SendHead
  \/ SendBody

Next == MainStep \/ ServerStep \/ Restart

Spec == Init /\ [][Next]_vars

\* ------------------------------------------------------------ properties

\* The page of this run has been rendered from the loaded frame.
Rendered == df # NoFrame /\ mainpc # "render"

\* C1, as stated: when the bind fails the process is terminated, as it is by
\* a store or file-write failure, and it does not go on to wait for input.
C1_BindFailureEndsProcess == serverpc = "failed" => ~Alive

\* C1, amended: when the bind fails only the server thread ends.  The bind
\* was tried once, nothing was printed, nothing listens and nothing was
\* served; the step that fails the bind leaves the main thread waiting for
\* operator input, and the thread never leaves the failed state (no retry,
\* no other port) for as long as the run lasts.
C1_BindFailureEndsThreadOnly ==
  /\ [](serverpc = "failed" =>
          /\ binds = 1
          /\ printed = 0
          /\ ~Listening
          /\ served = 0
          /\ req = NoRequest)
  /\ [][serverpc # "failed" /\ serverpc' = "failed" =>
          mainpc = "input" /\ mainpc' = "input" /\ Alive']_vars
  /\ [][serverpc = "failed" /\ serverpc' # "failed" => run' = run + 1]_vars

C1_Witness == serverpc = "failed" /\ mainpc = "input" /\ Alive

\* C2: the server thread exists, and so the port can be bound and a request
\* answered, only when the main thread has finished writing the page: the
\* file then holds the whole rendered text.
C2_ServerOnlyAfterWrite ==
  serverpc # "notstarted" =>
    /\ writes = 1
    /\ mainpc \in {"input", "done", "crashed"}
    /\ fs[HTML_FILE] = File(html)
    /\ html = Html(ReadSqlQuery(table))

C2_Witness == Listening /\ fs[HTML_FILE] = File(html) /\ Len(df.rows) > 0

\* C3: when the load fails the process ends with the fault after one load
\* attempt; nothing was rendered, the output file is as the run found it,
\* the server thread was never started and the port never bound.
C3_LoadFailureStopsEverything ==
  (store # "ok" /\ mainpc # "load") =>
    /\ mainpc = "crashed"
    /\ loads = 1
    /\ df = NoFrame
    /\ html = <<>>
    /\ writes = 0
    /\ fs[HTML_FILE] = fileAtStart
    /\ serverpc = "notstarted"
    /\ binds = 0
    /\ ~Listening

C3_Witness == store # "ok" /\ mainpc = "crashed" /\ loads = 1

\* C4, as stated: for every query result the page holds exactly one body
\* row per returned row, with the row's cells, in the order of the result.
C4_OneBodyRowPerReturnedRow ==
  Rendered => PageBodyRows(html) = ExpectedBodyRows(df)

\* The same statement restricted to tables whose texts carry no markup.
PlainTableOneBodyRowPerRow ==
  (Rendered /\ \A i \in DOMAIN table : table[i] = PlainSymbol) =>
    PageBodyRows(html) = ExpectedBodyRows(df)

\* C5: the header cells of the page are the seven column names of the
\* query, one cell each, in the query's order, whatever the number of rows.
C5_HeadersAreQueryColumns ==
  Rendered =>
    PageHeaders(html) =
      <<(<<"id">>), (<<"product_type">>), (<<"exchange">>), (<<"symbol">>),
        (<<"tick_size">>), (<<"lot_size">>), (<<"updated_at">>)>>

C5_Witness == mainpc = "input" /\ Len(df.rows) >= 2

\* C6: a run that writes the page over the one the run before wrote from
\* the same table contents leaves the file with the same text.
C6_RerunWritesSameBytes ==
  (writes = 1 /\ sameData) => fs[HTML_FILE] = fileAtStart

C6_Witness ==
  /\ writes = 1
  /\ sameData
  /\ table # <<>>
  /\ fileAtStart.exists
  /\ run > 1

\* C7: every answered request for the page's path got status 200 and the
\* text the main thread wrote to the output file, and a request for it that
\* is under way is reading that text.
C7_PageRequestReturnsWrittenBytes ==
  /\ resp.path = HTML_FILE =>
       resp.status = 200 /\ resp.body = html /\ fs[HTML_FILE] = File(resp.body)
  /\ (req.path = HTML_FILE /\ req.stage = "head") => req.src = html

C7_Witness ==
  /\ resp.path = HTML_FILE
  /\ served >= 2
  /\ mainpc = "input"
  /\ Len(df.rows) > 0

\* C8: while the main thread waits for input it can always read the line,
\* whatever the server thread is doing; the step in which it stops waiting
\* ends the process and leaves the server thread and its request where they
\* were; and short of the end of the process the server thread never leaves
\* its accept loop.
C8_ExitNeverWaitsForServer ==
  /\ [](mainpc = "input" => ENABLED ReadLine)
  /\ [][mainpc = "input" /\ mainpc' # "input" =>
          ~Alive' /\ serverpc' = serverpc /\ req' = req]_vars
  /\ [][run' = run /\ serverpc \in {"serving", "handling"} =>
          serverpc' \in {"serving", "handling"}]_vars

C8_Witness == mainpc = "done" /\ serverpc = "handling" /\ req.stage = "head"

\* C9: there are never more than two threads; the output file is written at
\* most once in a run and has been written when the server thread exists;
\* and every step that changes a file is a step of the main thread's write,
\* taken while the server thread does not exist.
C9_TwoThreadsOneWriter ==
  /\ [](/\ Cardinality(Threads) <= 2
        /\ writes <= 1
        /\ (serverpc # "notstarted" => writes = 1))
  /\ [][fs' # fs =>
          /\ mainpc \in {"write", "writing"}
          /\ serverpc = "notstarted"
          /\ serverpc' = "notstarted"]_vars

C9_Witness ==
  Threads = {"main", "server"} /\ req.stage = "head" /\ req.path = HTML_FILE

\* C10: the "Serving at" message is printed at most once in a run, and it
\* has been printed exactly when the server thread is past a successful
\* bind and its print; from there the thread's next step enters the accept
\* loop.  A failed bind prints nothing.
C10_ServingMessageOnlyAfterBind ==
  /\ [](/\ printed <= 1
        /\ (printed = 1 => binds = 1 /\ serverpc \in {"printed", "serving", "handling"})
        /\ (serverpc = "failed" => printed = 0))
  /\ [][serverpc = "printed" /\ serverpc' # "printed" =>
          serverpc' = "serving" \/ run' = run + 1]_vars

C10_Witness == printed = 1 /\ serverpc = "serving" /\ Alive

====
